---- MODULE Spec2Model ----
(***************************************************************************)
(* State-machine model of server/index.js of sprint-report: the Express    *)
(* handlers of the session routes, the two pagination loops, the sprint    *)
(* recency selection, the sprint report builder and normalizeBaseUrl.      *)
(*                                                                         *)
(* Strings whose characters matter (the Jira site input) are sequences of  *)
(* one-character strings.  JavaScript numbers are integers of a bounded    *)
(* finite range plus the tokens "NaN", "Inf" and "-Inf"; null/undefined    *)
(* is the value Null.                                                      *)
(***************************************************************************)
EXTENDS Integers, Sequences, FiniteSets, TLC

VARIABLES
    nbIn, nbOut,        \* normalizeBaseUrl: its argument and its result
    session,            \* req.session.jira as the session store holds it
    flight,             \* the requests of the session that are in flight, by slot
    hist,               \* history: whether a login holds, and the displayName it stored
    gate,               \* the last decision of ensureAuth and what the route then sent
    resp,               \* the last response: route, HTTP status, failing upstream status
    bl, sl,             \* locals of the boards loop and of the sprints loop
    engine, all, sprints, \* Date.parse of "0"; the fetched sprints; the list returned
    rp, body            \* locals of the report builder; the report sent

normVars == <<nbIn, nbOut>>
sessVars == <<session, flight, hist, gate>>
pageVars == <<bl, sl>>
selVars == <<engine, all, sprints>>
repVars == <<rp, body>>
vars == <<nbIn, nbOut, session, flight, hist, gate, resp, bl, sl, engine, all,
          sprints, rp, body>>

-----------------------------------------------------------------------------
(* String helpers: String.prototype.trim, toLowerCase, startsWith, slice,  *)
(* includes and the three regular expressions of normalizeBaseUrl.         *)

Upper == <<"H", "T", "P", "S", "F">>
LowerOfUpper == <<"h", "t", "p", "s", "f">>

toLowerChar(c) ==
    IF \E i \in 1..Len(Upper) : Upper[i] = c
    THEN LowerOfUpper[CHOOSE i \in 1..Len(Upper) : Upper[i] = c]
    ELSE c

toLowerCase(s) == [i \in 1..Len(s) |-> toLowerChar(s[i])]

slice(s, n) == SubSeq(s, n + 1, Len(s))

startsWith(s, p) == Len(s) >= Len(p) /\ SubSeq(s, 1, Len(p)) = p

includes(s, c) == \E i \in 1..Len(s) : s[i] = c

RECURSIVE trimStart(_)
trimStart(s) == IF s # <<>> /\ Head(s) = " " THEN trimStart(Tail(s)) ELSE s

RECURSIVE trimEnd(_)
trimEnd(s) ==
    IF s # <<>> /\ s[Len(s)] = " " THEN trimEnd(SubSeq(s, 1, Len(s) - 1)) ELSE s

trim(s) == trimEnd(trimStart(s))

\* s.replace(/\/+$/, '')
RECURSIVE stripTrailingSlashes(_)
stripTrailingSlashes(s) ==
    IF s # <<>> /\ s[Len(s)] = "/"
    THEN stripTrailingSlashes(SubSeq(s, 1, Len(s) - 1))
    ELSE s

HttpsNoColon == <<"h", "t", "t", "p", "s", "/", "/">>
HttpNoColon == <<"h", "t", "t", "p", "/", "/">>
HttpsScheme == <<"h", "t", "t", "p", "s", ":", "/", "/">>
HttpScheme == <<"h", "t", "t", "p", ":", "/", "/">>
AtlassianSuffix == <<".", "a", "t", "l", "a", "s", "s", "i", "a", "n", ".", "n", "e", "t">>

\* /^https?:\/\//i.test(s)
hasProtocol(s) ==
    startsWith(toLowerCase(s), HttpsScheme) \/ startsWith(toLowerCase(s), HttpScheme)

\* The variant of normalizeBaseUrl that also lowercases a scheme it finds.
normalizeBaseUrlLowerScheme(input) ==
    IF input = <<>> THEN <<>>
    ELSE
      LET s0 == trim(input)
          lower == toLowerCase(s0)
          s1 == IF startsWith(lower, HttpsNoColon)
                THEN HttpsScheme \o slice(s0, Len(HttpsNoColon)) ELSE s0
          s2 == IF startsWith(lower, HttpNoColon)
                THEN HttpScheme \o slice(s1, Len(HttpNoColon)) ELSE s1
          s == stripTrailingSlashes(s2)
      IN  IF startsWith(toLowerCase(s), HttpsScheme)
            THEN HttpsScheme \o slice(s, Len(HttpsScheme))
          ELSE IF startsWith(toLowerCase(s), HttpScheme)
            THEN HttpScheme \o slice(s, Len(HttpScheme))
          ELSE IF includes(s, ".") THEN HttpsScheme \o s
          ELSE HttpsScheme \o s \o AtlassianSuffix

normalizeBaseUrl(input) ==
    IF input = <<>> THEN <<>>
    ELSE
      LET s0 == trim(input)
          lower == toLowerCase(s0)
          s1 == IF startsWith(lower, HttpsNoColon)
                THEN HttpsScheme \o slice(s0, Len(HttpsNoColon)) ELSE s0
          s2 == IF startsWith(lower, HttpNoColon)
                THEN HttpScheme \o slice(s1, Len(HttpNoColon)) ELSE s1
          s == stripTrailingSlashes(s2)
      IN  IF hasProtocol(s) THEN s
          ELSE IF includes(s, ".") THEN HttpsScheme \o s
          ELSE HttpsScheme \o s \o AtlassianSuffix

\* The Jira site strings fed to normalizeBaseUrl: padding, a scheme as users
\* type it, a host, trailing slashes.
Pads == {<<>>, <<" ">>}
Schemes ==
    { <<>>, HttpsScheme, HttpScheme, HttpsNoColon, HttpNoColon,
      <<"H", "T", "T", "P", "S", ":", "/", "/">>,
      <<"H", "T", "T", "P", "S", "/", "/">>,
      <<"H", "t", "t", "p", "/", "/">> }
Hosts ==
    { <<>>, <<"f", "o", "o">>, <<"f", "o", "o">> \o AtlassianSuffix,
      <<"f", "o", "o", ".", "c", "o", "m">>, <<"F", "o", "o", ".", "c", "o", "m">> }
Slashes == {<<>>, <<"/">>, <<"/", "/">>}
SiteInputs ==
    {p \o sc \o h \o ts : p \in Pads, sc \in Schemes, h \in Hosts, ts \in Slashes}

\* nbOut before the call.
NoOutput == <<"(none)">>

NormIdle == nbIn = <<>> /\ nbOut = NoOutput

InitNorm == nbIn \in SiteInputs /\ nbOut = NoOutput

Normalize ==
    /\ nbOut = NoOutput
    /\ nbOut' = normalizeBaseUrl(nbIn)
    /\ UNCHANGED nbIn
    /\ UNCHANGED <<sessVars, resp, pageVars, selVars, repVars>>

-----------------------------------------------------------------------------
(* The session routes: POST /api/login, GET /api/me, POST /api/logout and  *)
(* the authenticated asynchronous routes, as far as they read and write    *)
(* the session.  A handler is cut at each await: requests of one session   *)
(* interleave there.                                                       *)

MaxFlight == 2      \* requests of the session in flight at once
MaxCalls == 2       \* upstream calls one request makes in this view of it

F_oo == <<"f", "o", "o">>
B_ar == <<"b", "a", "r", ".", "c", "o", "m">>
LoginDomains == {<<>>, F_oo, B_ar}
LoginEmails == {"", "ann@x"}
LoginTokens == {"", "tok1"}
JiraUsers == { [accountId |-> "u1", displayName |-> "Ann"],
               [accountId |-> "u2", displayName |-> "Bob"] }
FailStatuses == {401, 404}

\* What an upstream call can come to: a 2xx response, a non-2xx response
\* (r.ok false, with r.status), or fetch rejecting (transport failure).
Outcomes == {[kind |-> "ok", status |-> 200]}
              \cup {[kind |-> "fail", status |-> st] : st \in FailStatuses}
              \cup {[kind |-> "throw", status |-> 0]}

NoJira == [has |-> FALSE, baseUrl |-> <<>>, host |-> <<>>, email |-> "",
           apiToken |-> "", accountId |-> "", displayName |-> ""]

NoCreds == [baseUrl |-> <<>>, email |-> "", apiToken |-> ""]
NoReq == [route |-> "none", creds |-> NoCreds, used |-> {}, n |-> 0,
          domain |-> <<>>]
NoGate == [route |-> "none", status |-> 0, authed |-> FALSE, name |-> "",
           loginName |-> ""]
NoResp == [route |-> "none", status |-> 0, up |-> 0]

Slots == 1..MaxFlight
AsyncRoutes == {"boards", "sprints", "report"}

\* new URL(baseUrl).host, for base URLs that are a scheme and a host.
hostOf(baseUrl) ==
    toLowerCase(IF startsWith(toLowerCase(baseUrl), HttpsScheme)
                THEN slice(baseUrl, Len(HttpsScheme))
                ELSE slice(baseUrl, Len(HttpScheme)))

\* ensureAuth that lets every request through.
ensureAuthOpen == TRUE

ensureAuth == session.has

\* The credentials of a request's upstream call, read again from the session.
callCredsShared(i) ==
    IF session.has
    THEN [baseUrl |-> session.baseUrl, email |-> session.email,
          apiToken |-> session.apiToken]
    ELSE flight[i].creds

\* const { baseUrl, email, apiToken } = req.session.jira, once per request:
\* every fetch of the handler uses these constants.
callCreds(i) == flight[i].creds

destroyed == NoJira

stored(domain, email, apiToken, user) ==
    [has |-> TRUE, baseUrl |-> normalizeBaseUrl(domain),
     host |-> hostOf(normalizeBaseUrl(domain)), email |-> email,
     apiToken |-> apiToken, accountId |-> user.accountId,
     displayName |-> user.displayName]

\* res.status(401) of POST /api/login when /myself answers non-2xx.
loginFailureStatus(upstreamStatus) == 401

\* A fixed 502 for every upstream failure.
propagatedAsBadGateway(upstreamStatus) == 502

\* res.status(r.status) of the boards, sprints and search calls.
propagated(upstreamStatus) == upstreamStatus

SessIdle ==
    /\ session = NoJira
    /\ flight = [i \in Slots |-> NoReq]
    /\ hist = [authed |-> FALSE, loginName |-> ""]
    /\ gate = NoGate

\* POST /api/login up to its await: the 400 of a missing field, else the
\* request to /rest/api/3/myself is out.
LoginArrive(i) ==
    /\ flight[i].route = "none"
    /\ \E domain \in LoginDomains, email \in LoginEmails, apiToken \in LoginTokens :
         IF domain = <<>> \/ email = "" \/ apiToken = ""
         THEN /\ resp' = [route |-> "login", status |-> 400, up |-> 0]
              /\ UNCHANGED flight
         ELSE /\ flight' = [flight EXCEPT ![i] =
                    [route |-> "login",
                     creds |-> [baseUrl |-> normalizeBaseUrl(domain),
                                email |-> email, apiToken |-> apiToken],
                     used |-> {}, n |-> 0, domain |-> domain]]
              /\ UNCHANGED resp
    /\ UNCHANGED <<session, hist, gate>>
    /\ UNCHANGED <<normVars, pageVars, selVars, repVars>>

\* POST /api/login from the answer of /myself on: a 2xx answer stores the
\* record in the session, a non-2xx one is answered 401, a throw 500.
LoginRespond(i) ==
    /\ flight[i].route = "login"
    /\ \/ \E user \in JiraUsers :
            /\ session' = stored(flight[i].domain, flight[i].creds.email,
                                 flight[i].creds.apiToken, user)
            /\ hist' = [authed |-> TRUE, loginName |-> user.displayName]
            /\ resp' = [route |-> "login", status |-> 200, up |-> 0]
       \/ \E st \in FailStatuses :
            /\ resp' = [route |-> "login", status |-> loginFailureStatus(st), up |-> st]
            /\ UNCHANGED <<session, hist>>
       \/ /\ resp' = [route |-> "login", status |-> 500, up |-> 0]
          /\ UNCHANGED <<session, hist>>
    /\ flight' = [flight EXCEPT ![i] = NoReq]
    /\ UNCHANGED gate
    /\ UNCHANGED <<normVars, pageVars, selVars, repVars>>

\* GET /api/me: ensureAuth, then the session's record is sent.
Me ==
    /\ gate' = [route |-> "me", status |-> IF ensureAuth THEN 200 ELSE 401,
                authed |-> hist.authed,
                name |-> IF ensureAuth THEN session.displayName ELSE "",
                loginName |-> IF hist.authed THEN hist.loginName ELSE ""]
    /\ UNCHANGED <<session, flight, hist, resp>>
    /\ UNCHANGED <<normVars, pageVars, selVars, repVars>>

\* POST /api/logout: ensureAuth, then req.session.destroy; the memory store
\* this server is configured with never reports an error.
Logout ==
    /\ gate' = [route |-> "logout", status |-> IF ensureAuth THEN 200 ELSE 401,
                authed |-> hist.authed, name |-> "", loginName |-> ""]
    /\ IF ensureAuth
       THEN /\ session' = destroyed
            /\ hist' = [hist EXCEPT !.authed = FALSE]
       ELSE UNCHANGED <<session, hist>>
    /\ UNCHANGED <<flight, resp>>
    /\ UNCHANGED <<normVars, pageVars, selVars, repVars>>

\* An authenticated asynchronous route up to its first await: ensureAuth
\* (status 0: the request went on to its handler), then the credentials are
\* read from the session into constants.
Arrive(i) ==
    /\ flight[i].route = "none"
    /\ \E route \in AsyncRoutes :
         gate' = [route |-> route, status |-> IF ensureAuth THEN 0 ELSE 401,
                  authed |-> hist.authed, name |-> "", loginName |-> ""]
    /\ IF ensureAuth
       THEN flight' = [flight EXCEPT ![i] =
                [route |-> "async",
                 creds |-> [baseUrl |-> session.baseUrl, email |-> session.email,
                            apiToken |-> session.apiToken],
                 used |-> {}, n |-> 0, domain |-> <<>>]]
       ELSE UNCHANGED flight
    /\ UNCHANGED <<session, hist, resp>>
    /\ UNCHANGED <<normVars, pageVars, selVars, repVars>>

\* One upstream call of a request in flight, made with the handler's constants.
Upstream(i) ==
    /\ flight[i].route = "async"
    /\ flight[i].n < MaxCalls
    /\ flight' = [flight EXCEPT ![i].used = @ \cup {callCreds(i)},
                                ![i].n = @ + 1]
    /\ UNCHANGED <<session, hist, gate, resp>>
    /\ UNCHANGED <<normVars, pageVars, selVars, repVars>>

\* The request in flight answers; what it answers is the other views' matter.
Finish(i) ==
    /\ flight[i].route = "async"
    /\ flight[i].n > 0
    /\ flight' = [flight EXCEPT ![i] = NoReq]
    /\ UNCHANGED <<session, hist, gate, resp>>
    /\ UNCHANGED <<normVars, pageVars, selVars, repVars>>

-----------------------------------------------------------------------------
(* The pagination loops of GET /api/boards and GET /api/boards/:id/sprints. *)
(* A page is what the loop reads of it: whether values is there and how    *)
(* many items it holds, maxResults, total and isLast, each possibly        *)
(* missing.  The items themselves are the matter of the selection below.   *)

BoardsCap == 1000       \* if (startAt > 1000) break
SprintPages == 200      \* for (let page = 0; page < 200; page++)
PageSize == 50          \* maxResults=50 of both requests
SmallTotal == 100       \* a total the offset reaches on the second page
BigTotal == 100000      \* a total no offset within the caps reaches
MaxBack == 2            \* pages the upstream may push the offset below zero

Pages ==
    [ hasValues : BOOLEAN, len : {0, PageSize},
      hasMax : BOOLEAN, maxResults : {0, PageSize, -PageSize},
      hasTotal : BOOLEAN, total : {SmallTotal, BigTotal},
      isLast : {"missing", "true", "false"} ]

\* The pages as distinct JSON documents: a missing field has no value.
PageDocs ==
    { d \in Pages : /\ (~d.hasValues => d.len = 0)
                    /\ (~d.hasMax => d.maxResults = 0)
                    /\ (~d.hasTotal => d.total = BigTotal) }

IdleLoop == [pc |-> "idle", startAt |-> 0, page |-> 0, reqs |-> 0]

PagesIdle == bl = IdleLoop /\ sl = IdleLoop

\* (data.values || []).length
fetchedOf(d) == IF d.hasValues THEN d.len ELSE 0

\* data.isLast || startAt + data.maxResults >= data.total, of the boards loop:
\* a missing operand makes the comparison false.
boardsReachedEnd(startAt, d) ==
    \/ d.isLast = "true"
    \/ (d.hasMax /\ d.hasTotal /\ startAt + d.maxResults >= d.total)

\* data.maxResults || data.values.length
boardsStep(d) == IF d.hasMax /\ d.maxResults # 0 THEN d.maxResults ELSE d.len

\* GET /api/boards is let through by ensureAuth.
BoardsStart ==
    /\ ensureAuth
    /\ bl.pc = "idle" /\ sl.pc = "idle"
    /\ bl' = [IdleLoop EXCEPT !.pc = "loop"]
    /\ UNCHANGED <<sl, resp>>
    /\ UNCHANGED <<normVars, sessVars, selVars, repVars>>

\* One turn of while (true): the request for the page at startAt, and what
\* the handler does with its answer; out of the loop the boards are sorted
\* and sent.
BoardsPage ==
    /\ bl.pc = "loop"
    /\ \/ \E st \in FailStatuses :
            /\ bl' = [bl EXCEPT !.pc = "done"]
            /\ resp' = [route |-> "boards", status |-> propagated(st), up |-> st]
       \/ /\ bl' = [bl EXCEPT !.pc = "done"]
          /\ resp' = [route |-> "boards", status |-> 500, up |-> 0]
       \/ \E d \in PageDocs :
            IF boardsReachedEnd(bl.startAt, d) \/ ~d.hasValues \/ d.len = 0
            THEN /\ bl' = [bl EXCEPT !.pc = "done"]
                 /\ resp' = [route |-> "boards", status |-> 200, up |-> 0]
            ELSE /\ bl.startAt + boardsStep(d) >= -(MaxBack * PageSize)
                 /\ IF bl.startAt + boardsStep(d) > BoardsCap
                    THEN /\ bl' = [bl EXCEPT !.startAt = @ + boardsStep(d),
                                             !.pc = "done"]
                         /\ resp' = [route |-> "boards", status |-> 200, up |-> 0]
                    ELSE /\ bl' = [bl EXCEPT !.startAt = @ + boardsStep(d)]
                         /\ UNCHANGED resp
    /\ UNCHANGED sl
    /\ UNCHANGED <<normVars, sessVars, selVars, repVars>>

\* data.maxResults || fetched || maxResults
sprintsStep(d) ==
    IF d.hasMax /\ d.maxResults # 0 THEN d.maxResults
    ELSE IF fetchedOf(d) # 0 THEN fetchedOf(d) ELSE PageSize

\* data.isLast === true || fetched === 0 || (total != null && startAt + step >= total)
sprintsIsLast(startAt, d) ==
    \/ d.isLast = "true"
    \/ fetchedOf(d) = 0
    \/ (d.hasTotal /\ startAt + sprintsStep(d) >= d.total)

\* page < 200
sprintsMayFetch(page) == page < SprintPages

\* GET /api/boards/:boardId/sprints is let through by ensureAuth.
SprintsStart ==
    /\ ensureAuth
    /\ sl.pc = "idle" /\ bl.pc = "idle"
    /\ sl' = [IdleLoop EXCEPT !.pc = "loop"]
    /\ UNCHANGED <<bl, resp>>
    /\ UNCHANGED <<normVars, sessVars, selVars, repVars>>

\* One turn of the for loop, or leaving it at the cap: the sprints fetched
\* so far are then ranked and sent.  reqs counts the requests issued.
SprintsPage ==
    /\ sl.pc = "loop"
    /\ IF ~sprintsMayFetch(sl.page)
       THEN /\ sl' = [sl EXCEPT !.pc = "done"]
            /\ resp' = [route |-> "sprints", status |-> 200, up |-> 0]
       ELSE \/ \E st \in FailStatuses :
                 /\ sl' = [sl EXCEPT !.pc = "done", !.reqs = @ + 1]
                 /\ resp' = [route |-> "sprints", status |-> propagated(st), up |-> st]
            \/ /\ sl' = [sl EXCEPT !.pc = "done", !.reqs = @ + 1]
               /\ resp' = [route |-> "sprints", status |-> 500, up |-> 0]
            \/ \E d \in PageDocs :
                 IF sprintsIsLast(sl.startAt, d)
                 THEN /\ sl' = [sl EXCEPT !.pc = "done", !.reqs = @ + 1]
                      /\ resp' = [route |-> "sprints", status |-> 200, up |-> 0]
                 ELSE /\ sl.startAt + sprintsStep(d) >= -(MaxBack * PageSize)
                      /\ sl' = [sl EXCEPT !.startAt = @ + sprintsStep(d),
                                          !.page = @ + 1, !.reqs = @ + 1]
                      /\ UNCHANGED resp
    /\ UNCHANGED bl
    /\ UNCHANGED <<normVars, sessVars, selVars, repVars>>

-----------------------------------------------------------------------------
(* The recency selection of GET /api/boards/:boardId/sprints, applied to   *)
(* the sprints the loop fetched.  A date field is "" (absent), "bad" (a    *)
(* string Date.parse rejects) or an ISO date; times are in days since the  *)
(* epoch.  An id is a number, a numeric string or another string.  A name  *)
(* is its rank under localeCompare, 0 for a missing name.  The fetched     *)
(* list is a run of sprints with a recent start date, or none, with a      *)
(* sprint of any kind before it and after it.                              *)

TopN == 26          \* .slice(0, 26)
FillCount == 25     \* sprints with a recent start date that fill the list

Engines == {"v8", "strict"}     \* Date.parse("0"): 2000-01-01, or NaN

NaN == [t |-> "nan", v |-> 0]
Num(n) == [t |-> "num", v |-> n]

isFinite(x) == x.t = "num"

\* Date.parse: the time of a date string, NaN for a string that is no date;
\* what the number 0 (read as "0") parses to is the engine's choice.
DateParse(d) ==
    CASE d = "d1" -> Num(19701)
      [] d = "d2" -> Num(19702)
      [] d = "d3" -> Num(19703)
      [] d = "0" -> IF engine = "v8" THEN Num(10957) ELSE NaN
      [] OTHER -> NaN

\* typeof s.id === 'number' ? s.id : parseInt(s.id, 10) || 0
idNumber(id) == IF id.t \in {"num", "numstr"} THEN id.v ELSE 0

\* s.startDate || s.completeDate || s.createdDate || 0
firstDate(s) ==
    IF s.startDate # "" THEN s.startDate
    ELSE IF s.completeDate # "" THEN s.completeDate
    ELSE IF s.createdDate # "" THEN s.createdDate
    ELSE "0"

dateFor(s) ==
    IF isFinite(DateParse(firstDate(s))) THEN DateParse(firstDate(s)).v
    ELSE idNumber(s.id)

\* Array.prototype.sort with comparator (a, b) => key(b) - key(a), which is
\* stable, as an insertion sort: item i goes behind every item placed before
\* it whose key k is not smaller.
RECURSIVE insertDesc(_, _, _)
insertDesc(k, sorted, i) ==
    IF sorted = <<>> THEN <<i>>
    ELSE IF k[Head(sorted)] >= k[i]
         THEN <<Head(sorted)>> \o insertDesc(k, Tail(sorted), i)
         ELSE <<i>> \o sorted

RECURSIVE sortFirst(_, _)
sortFirst(k, n) == IF n = 0 THEN <<>> ELSE insertDesc(k, sortFirst(k, n - 1), n)

\* The items (as indices of k) in descending order of key.
sortDesc(k) == sortFirst(k, Len(k))

\* latest: indices into all of the 26 first sprints by dateFor, descending.
latestOf(a) ==
    LET order == sortDesc([i \in DOMAIN a |-> dateFor(a[i])])
    IN  SubSeq(order, 1, IF Len(a) < TopN THEN Len(a) ELSE TopN)

\* sprints: latest re-sorted by (b.name || '').localeCompare(a.name || '').
sprintsOf(a) ==
    LET latest == latestOf(a)
        order == sortDesc([p \in DOMAIN latest |-> a[latest[p]].name])
    IN  [p \in DOMAIN latest |-> latest[order[p]]]

Filler(k) == [id |-> [t |-> "num", v |-> 100 + k], startDate |-> "d2",
              completeDate |-> "", createdDate |-> "", name |-> 1]
Fillers == [k \in 1..FillCount |-> Filler(k)]

SprintIds == {[t |-> "num", v |-> 1], [t |-> "numstr", v |-> 9], [t |-> "str", v |-> 0]}
VariedSprints ==
    [ id : SprintIds, startDate : {"", "bad", "d3"},
      completeDate : {"", "d3"}, createdDate : {"", "d1"}, name : {0, 2} ]

UpTo1(S) == {<<>>} \cup {<<x>> : x \in S}

NoneSelected == <<0>>

SelIdle == engine = "v8" /\ all = <<>> /\ sprints = NoneSelected

InitSel ==
    /\ engine \in Engines
    /\ \E before \in UpTo1(VariedSprints), fill \in {<<>>, Fillers},
          after \in UpTo1(VariedSprints) :
         all = before \o fill \o after
    /\ sprints = NoneSelected

\* The handler after its loop: rank, cut and re-sort what was fetched.
Select ==
    /\ sprints = NoneSelected
    /\ sprints' = sprintsOf(all)
    /\ UNCHANGED <<engine, all>>
    /\ UNCHANGED <<normVars, sessVars, resp, pageVars, repVars>>

-----------------------------------------------------------------------------
(* The sprint report builder, GET /api/sprints/:sprintId/report.           *)
(* A JavaScript value is [t, v]: null/undefined, a finite number           *)
(* -MaxDouble..MaxDouble, NaN, an infinity, or a string (v its place in    *)
(* StrNumber).  MaxDouble stands for Number.MAX_VALUE and the other        *)
(* numbers of the model are story points, far below it: as with IEEE 754   *)
(* doubles, a result just beyond MaxDouble rounds back to it and a result  *)
(* of twice its size is an infinity.                                       *)

MaxDouble == 100    \* the largest finite number of the model
MaxIssues == 2      \* issues in a search result

Null == [t |-> "null", v |-> 0]
Inf(sign) == [t |-> "inf", v |-> sign]
Str(k) == [t |-> "str", v |-> k]

\* Number(s) of the strings of the model: "3", "abc", "".
StrNumber == <<Num(3), NaN, Num(0)>>

\* A result of arithmetic as a double.
asDouble(n) ==
    CASE n >= 2 * MaxDouble -> Inf(1)
      [] n <= -(2 * MaxDouble) -> Inf(-1)
      [] n > MaxDouble -> Num(MaxDouble)
      [] n < -MaxDouble -> Num(-MaxDouble)
      [] OTHER -> Num(n)

\* (v) => (typeof v === 'number' ? v : (v != null ? Number(v) : null))
toNum(x) ==
    IF x.t \in {"num", "nan", "inf"} THEN x
    ELSE IF x.t = "str" THEN StrNumber[x.v]
    ELSE Null

\* final - initial
minus(a, b) ==
    CASE a.t = "nan" \/ b.t = "nan" -> NaN
      [] a.t = "inf" /\ b.t = "inf" -> IF a.v = b.v THEN NaN ELSE a
      [] a.t = "inf" -> a
      [] b.t = "inf" -> Inf(-b.v)
      [] OTHER -> asDouble(a.v - b.v)

\* Math.abs
abs(x) ==
    CASE x.t = "num" -> Num(IF x.v < 0 THEN -x.v ELSE x.v)
      [] x.t = "inf" -> Inf(1)
      [] OTHER -> x

\* (initial != null && final != null) ? Math.abs(final - initial) : null
changeOf(initial, final) ==
    IF initial.t # "null" /\ final.t # "null" THEN abs(minus(final, initial)) ELSE Null

\* JSON.stringify of a number: NaN and the infinities are written as null.
jsonNum(x) == IF x.t = "num" THEN x ELSE Null

mapIssue(issue, action, addedSet) ==
    [ Action |-> action, Key |-> issue.key,
      Added |-> IF issue.key \in addedSet THEN "*" ELSE "",
      PointsInitial |-> toNum(issue.initial),
      PointsFinal |-> toNum(issue.final),
      PointsChange |-> changeOf(toNum(issue.initial), toNum(issue.final)) ]

\* The row of the fallback with the '*' of an issue that is done.
fallbackRowStarred(i, storyPointField) ==
    [ Action |-> IF i.done THEN "Completed" ELSE "NotCompleted", Key |-> i.key,
      Added |-> IF i.done THEN "*" ELSE "", PointsInitial |-> Null,
      PointsFinal |-> IF storyPointField = "customfield_10016" /\ i.hasSP
                         /\ i.sp.t \in {"num", "nan", "inf"}
                      THEN i.sp ELSE Null,
      PointsChange |-> Null ]

\* The row of a searched issue; i.done is whether its status name is "done"
\* or its status category key is 'done'.  Only customfield_10016 was asked
\* of the search, so another story point field has no value in i.fields.
fallbackRow(i, storyPointField) ==
    [ Action |-> IF i.done THEN "Completed" ELSE "NotCompleted", Key |-> i.key,
      Added |-> "", PointsInitial |-> Null,
      PointsFinal |-> IF storyPointField = "customfield_10016" /\ i.hasSP
                         /\ i.sp.t \in {"num", "nan", "inf"}
                      THEN i.sp ELSE Null,
      PointsChange |-> Null ]

\* res.json of a row.
jsonRow(r) ==
    [r EXCEPT !.PointsInitial = jsonNum(@), !.PointsFinal = jsonNum(@),
              !.PointsChange = jsonNum(@)]

EstValues ==
    {Null, Num(0), Num(1), Num(MaxDouble), Num(-MaxDouble), Str(1), Str(2), Str(3)}

RichIssues == [key : {"A", "B"}, initial : EstValues, final : EstValues]
PlainIssues == [key : {"C"}, initial : {Num(1)}, final : {Null, Num(1)}]
AddedSets == {{}, {"A", "C"}}   \* issueKeysAddedDuringSprint, as array or object

\* rep.contents of a 2xx answer of the rich report.
RichReports ==
    [ completedIssues : UpTo1(RichIssues),
      issuesNotCompletedInCurrentSprint : UpTo1(PlainIssues),
      puntedIssues : UpTo1(PlainIssues),
      added : AddedSets ]

SearchIssues ==
    { i \in [key : {"A"}, done : BOOLEAN, hasSP : BOOLEAN, sp : {Null, Num(1), Str(1)}] :
        ~i.hasSP => i.sp = Null }
SearchResults == UNION {[1..m -> SearchIssues] : m \in 0..MaxIssues}

NoTotals == [has |-> FALSE, completed |-> 0, notCompleted |-> 0, removed |-> 0]

IdleReport ==
    [ pc |-> "idle", originBoardId |-> 0, o1 |-> "none", o2 |-> "none",
      o3 |-> "none", up3 |-> 0, richCount |-> 0, rows |-> <<>>,
      totals |-> NoTotals, issues |-> <<>>, storyPointField |-> "" ]
NoBody == [sent |-> FALSE, rows |-> <<>>, totals |-> NoTotals, storyPointField |-> ""]

RepIdle == rp = IdleReport /\ body = NoBody

\* The rows in memory of a 2xx rich report: Completed, NotCompleted, Removed.
richRows(c) ==
    [p \in DOMAIN c.completedIssues |->
        mapIssue(c.completedIssues[p], "Completed", c.added)]
    \o [p \in DOMAIN c.issuesNotCompletedInCurrentSprint |->
        mapIssue(c.issuesNotCompletedInCurrentSprint[p], "NotCompleted", c.added)]
    \o [p \in DOMAIN c.puntedIssues |->
        mapIssue(c.puntedIssues[p], "Removed", c.added)]

richTotals(c) ==
    [ has |-> TRUE, completed |-> Len(c.completedIssues),
      notCompleted |-> Len(c.issuesNotCompletedInCurrentSprint),
      removed |-> Len(c.puntedIssues) ]

\* res.json({ sprintId, rows, totals, meta })
sentBody(rows, totals, field) ==
    [ sent |-> TRUE, rows |-> [p \in DOMAIN rows |-> jsonRow(rows[p])],
      totals |-> totals, storyPointField |-> field ]

\* GET /api/sprints/:sprintId/report is let through by ensureAuth.
ReportStart ==
    /\ ensureAuth
    /\ rp.pc \in {"idle", "done"}
    /\ rp' = [IdleReport EXCEPT !.pc = "detail"]
    /\ body' = NoBody
    /\ UNCHANGED resp
    /\ UNCHANGED <<normVars, sessVars, pageVars, selVars>>

\* Step 1: the sprint's detail; any failure leaves originBoardId null.
ReportDetail ==
    /\ rp.pc = "detail"
    /\ \E o \in Outcomes, ob \in {0, 7}, rv \in {0, 8} :
         LET id == IF o.kind = "ok" THEN (IF ob # 0 THEN ob ELSE rv) ELSE 0
         IN  rp' = [rp EXCEPT !.o1 = o.kind, !.originBoardId = id,
                              !.pc = IF id # 0 THEN "rich" ELSE "search"]
    /\ UNCHANGED <<body, resp>>
    /\ UNCHANGED <<normVars, sessVars, pageVars, selVars>>

\* Step 2: the rich report.  Its fetch is awaited outside the inner try: a
\* transport failure goes to the handler's catch.
ReportRich ==
    /\ rp.pc = "rich"
    /\ \E o \in Outcomes, c \in RichReports :
         CASE o.kind = "ok" ->
                IF richRows(c) = <<>>
                THEN /\ rp' = [rp EXCEPT !.o2 = "ok", !.totals = richTotals(c),
                                         !.storyPointField = "customfield_10016",
                                         !.pc = "search"]
                     /\ UNCHANGED <<body, resp>>
                ELSE /\ rp' = [rp EXCEPT !.o2 = "ok", !.rows = richRows(c),
                                         !.richCount = Len(richRows(c)),
                                         !.totals = richTotals(c),
                                         !.storyPointField = "customfield_10016",
                                         !.pc = "done"]
                     /\ body' = sentBody(richRows(c), richTotals(c), "customfield_10016")
                     /\ resp' = [route |-> "report", status |-> 200, up |-> 0]
           [] o.kind = "fail" ->
                /\ rp' = [rp EXCEPT !.o2 = "fail", !.pc = "search"]
                /\ UNCHANGED <<body, resp>>
           [] OTHER ->
                /\ rp' = [rp EXCEPT !.o2 = "throw", !.pc = "done"]
                /\ resp' = [route |-> "report", status |-> 500, up |-> 0]
                /\ UNCHANGED body
    /\ UNCHANGED <<normVars, sessVars, pageVars, selVars>>

\* Step 3: the JQL search, then the rows unless the field catalog is asked.
ReportSearch ==
    /\ rp.pc = "search"
    /\ \E o \in Outcomes, issues \in SearchResults :
         CASE o.kind = "fail" ->
                /\ rp' = [rp EXCEPT !.o3 = "fail", !.up3 = o.status, !.pc = "done"]
                /\ resp' = [route |-> "report", status |-> propagated(o.status),
                            up |-> o.status]
                /\ UNCHANGED body
           [] o.kind = "throw" ->
                /\ rp' = [rp EXCEPT !.o3 = "throw", !.pc = "done"]
                /\ resp' = [route |-> "report", status |-> 500, up |-> 0]
                /\ UNCHANGED body
           [] OTHER ->
                IF \E p \in DOMAIN issues : issues[p].hasSP
                THEN LET rows == [p \in DOMAIN issues |->
                                     fallbackRow(issues[p], "customfield_10016")]
                     IN  /\ rp' = [rp EXCEPT !.o3 = "ok", !.issues = issues,
                                             !.rows = rows,
                                             !.storyPointField = "customfield_10016",
                                             !.pc = "done"]
                         /\ body' = sentBody(rows, rp.totals, "customfield_10016")
                         /\ resp' = [route |-> "report", status |-> 200, up |-> 0]
                ELSE /\ rp' = [rp EXCEPT !.o3 = "ok", !.issues = issues, !.pc = "field"]
                     /\ UNCHANGED <<body, resp>>
    /\ UNCHANGED <<normVars, sessVars, pageVars, selVars>>

\* The field catalog, asked when no searched issue carries customfield_10016.
ReportField ==
    /\ rp.pc = "field"
    /\ \E o \in Outcomes, found \in {"", "customfield_10026"} :
         IF o.kind = "throw"
         THEN /\ rp' = [rp EXCEPT !.pc = "done"]
              /\ resp' = [route |-> "report", status |-> 500, up |-> 0]
              /\ UNCHANGED body
         ELSE LET field == IF o.kind = "ok" /\ found # "" THEN found
                           ELSE "customfield_10016"
                  rows == [p \in DOMAIN rp.issues |-> fallbackRow(rp.issues[p], field)]
              IN  /\ rp' = [rp EXCEPT !.rows = rows, !.storyPointField = field,
                                      !.pc = "done"]
                  /\ body' = sentBody(rows, rp.totals, field)
                  /\ resp' = [route |-> "report", status |-> 200, up |-> 0]
    /\ UNCHANGED <<normVars, sessVars, pageVars, selVars>>

-----------------------------------------------------------------------------
(* Specifications.  Each takes the part of the server its claims are about *)
(* and leaves the rest idle.                                               *)

AllIdle == NormIdle /\ SessIdle /\ PagesIdle /\ SelIdle /\ RepIdle /\ resp = NoResp

\* The session after a login that succeeded, nothing else under way.
LoggedIn ==
    /\ NormIdle /\ PagesIdle /\ SelIdle /\ RepIdle /\ resp = NoResp
    /\ session = stored(F_oo, "ann@x", "tok1", [accountId |-> "u1", displayName |-> "Ann"])
    /\ flight = [i \in Slots |-> NoReq]
    /\ hist = [authed |-> TRUE, loginName |-> "Ann"]
    /\ gate = NoGate

\* normalizeBaseUrl applied to a Jira site input.
InitNorm0 == InitNorm /\ SessIdle /\ PagesIdle /\ SelIdle /\ RepIdle /\ resp = NoResp
NextNorm == Normalize
SpecNorm == InitNorm0 /\ [][NextNorm]_vars

\* The requests of one session, interleaved at their awaits.
NextSession ==
    \/ \E i \in Slots : LoginArrive(i)
    \/ \E i \in Slots : LoginRespond(i)
    \/ Me
    \/ Logout
    \/ \E i \in Slots : Arrive(i)
    \/ \E i \in Slots : Upstream(i)
    \/ \E i \in Slots : Finish(i)
SpecSession == AllIdle /\ [][NextSession]_vars

\* The two pagination loops, each on a request of its own.
NextPages == BoardsStart \/ BoardsPage \/ SprintsStart \/ SprintsPage
SpecPages == LoggedIn /\ [][NextPages]_vars

\* The same with every answer of the upstream arriving: an await of a fetch
\* that settles lets the loop take its next turn.
SpecPagesFair ==
    LoggedIn /\ [][NextPages]_vars /\ WF_vars(BoardsPage) /\ WF_vars(SprintsPage)

\* The recency selection applied to fetched sprints.
InitSel0 == NormIdle /\ SessIdle /\ PagesIdle /\ InitSel /\ RepIdle /\ resp = NoResp
NextSel == Select
SpecSel == InitSel0 /\ [][NextSel]_vars

\* The report builder, one request after the other.
NextReport == ReportStart \/ ReportDetail \/ ReportRich \/ ReportSearch \/ ReportField
SpecReport == LoggedIn /\ [][NextReport]_vars

\* One request to a route that needs an answer of Jira: nothing has been
\* answered yet when it arrives.
Fresh ==
    /\ resp = NoResp /\ flight[1] = NoReq
    /\ bl.pc = "idle" /\ sl.pc = "idle" /\ rp.pc = "idle"

NextUpstream ==
    \/ (Fresh /\ LoginArrive(1))
    \/ LoginRespond(1)
    \/ (Fresh /\ BoardsStart)
    \/ BoardsPage
    \/ (Fresh /\ SprintsStart)
    \/ SprintsPage
    \/ (Fresh /\ ReportStart)
    \/ ReportDetail
    \/ ReportRich
    \/ ReportSearch
    \/ ReportField
SpecUpstream == LoggedIn /\ [][NextUpstream]_vars

-----------------------------------------------------------------------------
(* Claims.                                                                 *)

Foo_com == <<"f", "o", "o", ".", "c", "o", "m">>
FooCap_com == <<"F", "o", "o", ".", "c", "o", "m">>
HTTPS_Upper == <<"H", "T", "T", "P", "S", ":", "/", "/">>

\* C7 as claimed: normalizeBaseUrl maps "foo" to "https://foo.atlassian.net",
\* "foo.atlassian.net" to the same, "https//foo.com" to "https://foo.com",
\* "" to "" and "HTTPS://Foo.com/" to "https://Foo.com", the scheme lowercased.
C7_Original ==
    nbOut # NoOutput =>
      /\ (nbIn = F_oo => nbOut = HttpsScheme \o F_oo \o AtlassianSuffix)
      /\ (nbIn = F_oo \o AtlassianSuffix => nbOut = HttpsScheme \o F_oo \o AtlassianSuffix)
      /\ (nbIn = HttpsNoColon \o Foo_com => nbOut = HttpsScheme \o Foo_com)
      /\ (nbIn = <<>> => nbOut = <<>>)
      /\ (nbIn = HTTPS_Upper \o FooCap_com \o <<"/">> =>
            nbOut = HttpsScheme \o FooCap_com)

\* C7 as amended: the first four examples are as claimed and
\* "HTTPS://Foo.com/" is returned as "HTTPS://Foo.com".  A scheme with its
\* colon, in any letter case, is detected and the input is returned as
\* written but for the padding and the trailing slashes; only a scheme whose
\* colon is missing (and that a host follows) is rewritten, in lowercase.
C7_AsWritten ==
    nbOut # NoOutput =>
      /\ (nbIn = F_oo => nbOut = HttpsScheme \o F_oo \o AtlassianSuffix)
      /\ (nbIn = F_oo \o AtlassianSuffix => nbOut = HttpsScheme \o F_oo \o AtlassianSuffix)
      /\ (nbIn = HttpsNoColon \o Foo_com => nbOut = HttpsScheme \o Foo_com)
      /\ (nbIn = <<>> => nbOut = <<>>)
      /\ (nbIn = HTTPS_Upper \o FooCap_com \o <<"/">> =>
            nbOut = HTTPS_Upper \o FooCap_com)
      /\ (hasProtocol(stripTrailingSlashes(trim(nbIn))) =>
            nbOut = stripTrailingSlashes(trim(nbIn)))
      /\ \A nc \in {HttpsNoColon, HttpNoColon} :
           (/\ startsWith(toLowerCase(trim(nbIn)), nc)
            /\ stripTrailingSlashes(slice(trim(nbIn), Len(nc))) # <<>>) =>
              nbOut = SubSeq(nc, 1, Len(nc) - 2) \o <<":", "/", "/">>
                        \o stripTrailingSlashes(slice(trim(nbIn), Len(nc)))

\* C7: the call on "HTTPS://Foo.com/" has returned "HTTPS://Foo.com".
C7_Witness ==
    /\ nbIn = HTTPS_Upper \o FooCap_com \o <<"/">>
    /\ nbOut = HTTPS_Upper \o FooCap_com

AuthRoutes == {"me", "logout"} \cup AsyncRoutes

\* C1: an authenticated route is answered 401 by ensureAuth exactly when no
\* login of the session has succeeded or a logout has succeeded since the
\* last one that did; a GET /api/me that is let through returns the
\* displayName the last successful login stored.
C1_AuthGate ==
    gate.route \in AuthRoutes =>
      /\ (gate.status = 401) <=> ~gate.authed
      /\ (gate.route = "me" /\ gate.status # 401) =>
            (gate.status = 200 /\ gate.name = gate.loginName /\ gate.name # "")

\* C1: a login succeeded, a logout followed, and GET /api/me was answered 401.
C1_Witness ==
    /\ gate.route = "me" /\ gate.status = 401
    /\ hist.loginName # "" /\ ~hist.authed

\* C10 as claimed: once a login has created the session's record, no request
\* changes it; it can only be destroyed.
C10_Original == [][session.has => (session' = session \/ session' = NoJira)]_vars

\* C10 as amended: the session's record changes only as a whole, stored by a
\* POST /api/login that succeeded (which may replace the record of an earlier
\* login) or destroyed by a POST /api/logout; no other request changes it, and a
\* request in flight makes all of its upstream calls with the credentials it
\* read when it arrived.
C10_OnlyLoginAndLogout ==
    /\ [](\A i \in Slots :
            flight[i].route = "async" => flight[i].used \subseteq {flight[i].creds})
    /\ [][/\ session' # session =>
               \/ /\ session' = NoJira
                  /\ gate'.route = "logout" /\ gate'.status = 200
               \/ /\ session'.has
                  /\ resp'.route = "login" /\ resp'.status = 200
                  /\ \E i \in Slots :
                       /\ flight[i].route = "login" /\ flight'[i] = NoReq
                       /\ session'.baseUrl = flight[i].creds.baseUrl
                       /\ session'.email = flight[i].creds.email
                       /\ session'.apiToken = flight[i].creds.apiToken
          /\ \A i \in Slots :
               (flight[i].route = "async" /\ flight'[i].route = "async") =>
                  flight'[i].creds = flight[i].creds]_vars

\* C10: a request in flight has made its upstream calls after a later login
\* replaced the record it had read its credentials from.
C10_Witness ==
    \E i \in Slots :
      /\ flight[i].route = "async" /\ flight[i].n = MaxCalls
      /\ session.has /\ session.baseUrl # flight[i].creds.baseUrl

\* C9: whatever the pages carry, both loops terminate, the sprints loop
\* having issued at most 200 requests and the boards loop issuing none at an
\* offset above 1000.
C9_Terminates ==
    /\ [](sl.reqs <= SprintPages)
    /\ [](bl.pc = "loop" => bl.startAt <= BoardsCap)
    /\ (sl.pc = "loop" ~> sl.pc = "done")
    /\ (bl.pc = "loop" ~> bl.pc = "done")

\* The recency key as claimed: the first of startDate, completeDate and
\* createdDate that parses, and the numeric id when none does.
claimedKey(s) ==
    IF isFinite(DateParse(s.startDate)) THEN DateParse(s.startDate).v
    ELSE IF isFinite(DateParse(s.completeDate)) THEN DateParse(s.completeDate).v
    ELSE IF isFinite(DateParse(s.createdDate)) THEN DateParse(s.createdDate).v
    ELSE idNumber(s.id)

\* The indices of all that the answer holds.
Returned == {sprints[p] : p \in DOMAIN sprints}

\* C6: at most 26 sprints are returned, they are the fetched sprints with
\* the largest recency key (all of them when fewer than 27 were fetched),
\* the key being the first of startDate, completeDate, createdDate that
\* parses and the numeric id only when none parses, and the list is in
\* descending order of name.
C6_LatestByParsedDate ==
    sprints # NoneSelected =>
      /\ Len(sprints) <= TopN
      /\ Cardinality(Returned) = (IF Len(all) < TopN THEN Len(all) ELSE TopN)
      /\ \A i \in Returned : \A j \in DOMAIN all \ Returned :
           claimedKey(all[i]) >= claimedKey(all[j])
      /\ \A p, q \in DOMAIN sprints :
           p < q => all[sprints[p]].name >= all[sprints[q]].name

\* JSON null in the place of a row's Added mark.
AddedNull == "(null)"

TotalsSum(t) == t.completed + t.notCompleted + t.removed

\* C2: in every report sent, every row has PointsChange null unless both
\* PointsInitial and PointsFinal are non-null, and then PointsChange is the
\* absolute difference of the two.
C2_ChangeIsDifference ==
    body.sent =>
      \A p \in DOMAIN body.rows :
        LET r == body.rows[p]
        IN  IF r.PointsInitial # Null /\ r.PointsFinal # Null
            THEN /\ r.PointsChange # Null
                 /\ r.PointsChange = abs(minus(r.PointsFinal, r.PointsInitial))
            ELSE r.PointsChange = Null

\* C3: whenever the rich report answered 2xx, the report sent has
\* totals.completed + totals.notCompleted + totals.removed = rows.length,
\* also when its buckets were empty and the rows come from the search.
C3_TotalsCountRows ==
    (body.sent /\ rp.o2 = "ok") =>
       (body.totals.has /\ TotalsSum(body.totals) = Len(body.rows))

\* The report sent when the rich report held no issue or no board was known.
FallbackSent ==
    /\ body.sent
    /\ rp.originBoardId = 0 \/ (rp.o2 = "ok" /\ rp.richCount = 0)

ReachedSearch == rp.pc \in {"search", "field"} \/ (rp.pc = "done" /\ rp.o3 # "none")

\* C5: a failure of the step-1 call leads to the fallback; a failure of the
\* step-2 call, non-2xx or transport-level, leads to the fallback and not to
\* an error response; a non-2xx answer of the step-3 search is sent on with
\* the upstream's status.
C5_FailuresAbsorbed ==
    /\ rp.o1 \in {"fail", "throw"} => ReachedSearch
    /\ rp.o2 \in {"fail", "throw"} => ReachedSearch
    /\ (rp.pc = "done" /\ rp.o3 = "fail") =>
          (resp.route = "report" /\ resp.status = rp.up3)

\* C8 as claimed: when a required upstream call (login validation, boards,
\* sprints, search) is answered non-2xx, the client receives that status.
C8_Original == resp.up # 0 => resp.status = resp.up

\* C8 as amended: when the boards, sprints or search call is answered
\* non-2xx the client receives the upstream's status; when the login
\* validation is answered non-2xx the client receives 401 whatever the
\* upstream's status.
C8_StatusSurfaced ==
    resp.up # 0 =>
      IF resp.route = "login" THEN resp.status = 401 ELSE resp.status = resp.up

\* C8: Jira answered the login validation 404 and the client received 401.
C8_Witness == resp.route = "login" /\ resp.up = 404 /\ resp.status = 401

====
